---- MODULE Spec2Model ----
(***************************************************************************)
(* A model of python/scsmodule.c: the entry point csolve, the parsers it   *)
(* calls (getPosIntParam, getOptFloatParam, parseOpts, getConeArrDim,      *)
(* getWarmStart), the buffer coercion getContiguous and the teardown       *)
(* freePyData / finishWithErr.  Every heap block and every Python array    *)
(* reference the call creates is tracked, so that leaks, double releases   *)
(* and dangling result buffers are states of the model.                    *)
(***************************************************************************)
EXTENDS Integers, Sequences, FiniteSets, TLC

(***************************************************************************)
(* Bounds of the model.                                                    *)
(***************************************************************************)
\* largest m, n and array length
MaxDim == 1
\* longest list given for cone fields q and s
MaxList == 2
\* largest number of keys present in a supplied opts mapping
MaxOptKeys == 1
\* number of freePyData invocations the teardown harness makes
MaxReap == 2

(***************************************************************************)
(* Python objects, as the tagged values the C code can tell apart.         *)
(* An integer object is w * 2^32 + v with -2^31 <= v < 2^31, so that the   *)
(* narrowing cast to a 32-bit idxint is the projection on v.               *)
(* A float object is a NaN or a number of thousandths.                     *)
(***************************************************************************)
Absent == [tag |-> "absent"]
Omitted == [tag |-> "omitted"]
NULLP == [tag |-> "NULL"]
Wild == [tag |-> "wild"]
PyInt(w, v) == [tag |-> "int", w |-> w, v |-> v]
PyFloat(milli) == [tag |-> "float", nan |-> FALSE, milli |-> milli]
PyNaN == [tag |-> "float", nan |-> TRUE, milli |-> 0]
PyStr == [tag |-> "str"]
PyList(elems) == [tag |-> "list", elems |-> elems]
PyDict(map) == [tag |-> "dict", map |-> map]
NdArray(kind, ndim, len) == [tag |-> "ndarray", kind |-> kind, ndim |-> ndim, len |-> len]

(***************************************************************************)
(* C scalars.  A C long / idxint is the pair [w, v] read as w * 2^32 + v;  *)
(* a pfloat is [nan, milli].                                               *)
(***************************************************************************)
Idx(v) == [w |-> 0, v |-> v]
Flt(milli) == [nan |-> FALSE, milli |-> milli]

\* PyInt_AsLong / PyLong_AsLong on an integer object within the range of long
PyInt_AsLong(obj) == [w |-> obj.w, v |-> obj.v]

\* the cast (idxint): idxint is long under DLONG, else a 32-bit int
CastIdxint(dl, l) == IF dl THEN l ELSE [w |-> 0, v |-> l.v]

\* x >= 0 on an idxint
IdxGE0(x) == x.w > 0 \/ (x.w = 0 /\ x.v >= 0)

\* the cast (pfloat) of a long; the magnitude of a value beyond 32 bits is
\* kept only as its sign and a large number of thousandths
LongToPfloat(l) == Flt(IF l.w = 0 THEN l.v * 1000 ELSE l.w * 2000000000)

\* PyFloat_AsDouble
PyFloat_AsDouble(obj) == [nan |-> obj.nan, milli |-> obj.milli]

\* x < 0 and x >= 0 on a pfloat: both false on a NaN
FltLT0(x) == ~x.nan /\ x.milli < 0
FltGE0(x) == ~x.nan /\ x.milli >= 0

\* PyDict_GetItemString
PyDict_GetItemString(dict, key) == dict.map[key]

(***************************************************************************)
(* getPosIntParam: [rc, v], v being the value left in *v.                  *)
(***************************************************************************)
getPosIntParam(key, defVal, opts, dl) ==
  IF opts = NULLP THEN [rc |-> 0, v |-> defVal]
  ELSE LET obj == PyDict_GetItemString(opts, key) IN
       IF obj = Absent THEN [rc |-> 0, v |-> defVal]
       ELSE IF obj.tag = "int"
            THEN LET x == CastIdxint(dl, PyInt_AsLong(obj)) IN
                 [rc |-> IF IdxGE0(x) THEN 0 ELSE -1, v |-> x]
            ELSE [rc |-> -1, v |-> defVal]

(***************************************************************************)
(* getOptFloatParam: [rc, v].                                              *)
(***************************************************************************)
getOptFloatParam(key, defVal, opts) ==
  IF opts = NULLP THEN [rc |-> 0, v |-> defVal]
  ELSE LET obj == PyDict_GetItemString(opts, key) IN
       IF obj = Absent THEN [rc |-> 0, v |-> defVal]
       ELSE IF obj.tag = "int"
            THEN LET x == LongToPfloat(PyInt_AsLong(obj)) IN
                 [rc |-> IF FltLT0(x) THEN -1 ELSE 0, v |-> x]
            ELSE IF obj.tag # "float" THEN [rc |-> -1, v |-> defVal]
            ELSE LET x == PyFloat_AsDouble(obj) IN
                 [rc |-> IF FltGE0(x) THEN 0 ELSE -1, v |-> x]

(***************************************************************************)
(* parseOpts.  OptTable lists the options in the order parseOpts reads     *)
(* them, with the default each call passes and the test applied to the     *)
(* return code ("lt0": rc < 0, "ne0": rc # 0).                             *)
(***************************************************************************)
OptTable ==
  << [key |-> "MAX_ITERS", type |-> "int",   def |-> Idx(2500), test |-> "lt0"],
     [key |-> "VERBOSE",   type |-> "int",   def |-> Idx(1),    test |-> "lt0"],
     [key |-> "NORMALIZE", type |-> "int",   def |-> Idx(1),    test |-> "ne0"],
     [key |-> "SCALE",     type |-> "float", def |-> Flt(5000), test |-> "lt0"],
     [key |-> "EPS",       type |-> "float", def |-> Flt(1),    test |-> "lt0"],
     [key |-> "CG_RATE",   type |-> "float", def |-> Flt(2000), test |-> "lt0"],
     [key |-> "ALPHA",     type |-> "float", def |-> Flt(1800), test |-> "lt0"],
     [key |-> "RHO_X",     type |-> "float", def |-> Flt(1),    test |-> "lt0"] >>

OptKeys == {OptTable[i].key : i \in 1..Len(OptTable)}

\* the option fields of a Data block fresh from scs_calloc
ZeroOpts ==
  [MAX_ITERS |-> Idx(0), VERBOSE |-> Idx(0), NORMALIZE |-> Idx(0), SCALE |-> Flt(0),
   EPS |-> Flt(0), CG_RATE |-> Flt(0), ALPHA |-> Flt(0), RHO_X |-> Flt(0)]

RECURSIVE parseOptsFrom(_, _, _, _)
parseOptsFrom(i, dopt, opts, dl) ==
  IF i > Len(OptTable) THEN [rc |-> 0, opt |-> dopt, failed |-> "none"]
  ELSE LET e == OptTable[i]
           r == IF e.type = "int" THEN getPosIntParam(e.key, e.def, opts, dl)
                ELSE getOptFloatParam(e.key, e.def, opts)
           bad == IF e.test = "lt0" THEN r.rc < 0 ELSE r.rc # 0
           nxt == [dopt EXCEPT ![e.key] = r.v]
       IN IF bad THEN [rc |-> -1, opt |-> nxt, failed |-> e.key]
          ELSE parseOptsFrom(i + 1, nxt, opts, dl)

parseOpts(dopt, opts, dl) == parseOptsFrom(1, dopt, opts, dl)

(***************************************************************************)
(* getConeArrDim: rc, whether the local array q was allocated, whether the *)
(* outputs *vsize / *varr were assigned, and the values assigned.          *)
(***************************************************************************)
ConeElemOK(obj, dl) == obj.tag = "int" /\ IdxGE0(CastIdxint(dl, PyInt_AsLong(obj)))

getConeArrDim(key, cone, dl) ==
  LET obj == PyDict_GetItemString(cone, key) IN
  IF obj = Absent
  THEN [rc |-> 0, alloc |-> FALSE, assigned |-> TRUE, vsize |-> 0]
  ELSE IF obj.tag = "list"
  THEN IF \A i \in 1..Len(obj.elems) : ConeElemOK(obj.elems[i], dl)
       THEN [rc |-> 0, alloc |-> TRUE, assigned |-> TRUE, vsize |-> Len(obj.elems)]
       ELSE [rc |-> -1, alloc |-> TRUE, assigned |-> FALSE, vsize |-> 0]
  ELSE IF obj.tag = "int"
  THEN IF ConeElemOK(obj, dl)
       THEN [rc |-> 0, alloc |-> TRUE, assigned |-> TRUE, vsize |-> 1]
       ELSE [rc |-> -1, alloc |-> TRUE, assigned |-> FALSE, vsize |-> 0]
  ELSE [rc |-> -1, alloc |-> FALSE, assigned |-> FALSE, vsize |-> 0]

(***************************************************************************)
(* getWarmStart.  The dictionary item is cast to PyArrayObject * without a *)
(* type check, so PyArray_ISFLOAT / PyArray_NDIM / PyArray_DIM read the    *)
(* fields of an array only when the item is one; on any other object the   *)
(* reads are undefined and ub names what they produce: a crash, a failed   *)
(* test, or a passed test with a buffer of some length.                    *)
(* Result: the return value, whether the call crashed, whether             *)
(* getContiguous was called, and the length of the coerced buffer.         *)
(***************************************************************************)
UBOutcomes ==
  {[o |-> "crash", len |-> 0], [o |-> "reject", len |-> 0]}
    \cup {[o |-> "accept", len |-> l] : l \in {0, 1, 2}}

\* the outcomes to consider for one item: those of the undefined reads when the
\* item is an object other than an array, none otherwise
UBFor(warm, key) ==
  LET x0 == PyDict_GetItemString(warm, key) IN
  IF x0 # Absent /\ x0.tag # "ndarray" THEN UBOutcomes ELSE {[o |-> "none", len |-> 0]}

WarmTestFails(x0, l) == x0.kind # "f" \/ x0.ndim # 1 \/ x0.len # l

getWarmStart(key, l, warm, ub) ==
  LET x0 == PyDict_GetItemString(warm, key) IN
  IF x0 = Absent
  THEN [ret |-> 0, crash |-> FALSE, coerced |-> FALSE, len |-> l]
  ELSE IF x0.tag = "ndarray"
  THEN IF WarmTestFails(x0, l)
       THEN [ret |-> 0, crash |-> FALSE, coerced |-> FALSE, len |-> l]
       ELSE [ret |-> 1, crash |-> FALSE, coerced |-> TRUE, len |-> x0.len]
  ELSE IF ub.o = "crash"
       THEN [ret |-> 0, crash |-> TRUE, coerced |-> FALSE, len |-> l]
       ELSE IF ub.o = "reject"
       THEN [ret |-> 0, crash |-> FALSE, coerced |-> FALSE, len |-> l]
       ELSE [ret |-> 1, crash |-> FALSE, coerced |-> TRUE, len |-> ub.len]

\* a | b on the 0/1 values getWarmStart returns
BitOr(a, b) == IF a = 1 \/ b = 1 THEN 1 ELSE 0

(***************************************************************************)
(* The heap.  A block is a native allocation (scs_calloc / scs_malloc) or  *)
(* a Python array holding one reference (the array PyArray_Cast creates in *)
(* getContiguous); a release is scs_free or the Py_DECREF of that          *)
(* reference.  nrel counts the releases a block has received.              *)
(***************************************************************************)
NativeBlocks == {"d", "k", "A", "kq", "ks", "wx", "wy", "ws", "ox", "oy", "os"}
PyBlocks == {"ownAx", "ownAi", "ownAp", "ownB", "ownC", "ownX0", "ownY0", "ownS0"}
Blocks == NativeBlocks \cup PyBlocks

EmptyHeap == [b \in Blocks |-> [st |-> "none", nrel |-> 0]]

Alloc(h, b) == [h EXCEPT ![b] = [st |-> "live", nrel |-> 0]]

\* scs_free(p) / Py_DECREF(p) of the only reference
Release(h, b) == [h EXCEPT ![b] = [st |-> "freed", nrel |-> @.nrel + 1]]

\* getContiguous: the new array of PyArray_Cast, owned by the pointer returned
getContiguous(h, tok) == Alloc(h, tok)

RECURSIVE ReleaseEach(_, _)
ReleaseEach(h, ptrs) ==
  IF ptrs = <<>> THEN h
  ELSE ReleaseEach(IF Head(ptrs) = "NULL" THEN h ELSE Release(h, Head(ptrs)), Tail(ptrs))

\* freePyData without the release of ps->Ap
freePyDataSkipsAp(h, dF, kF, psv) ==
  LET h1 == ReleaseEach(h, <<psv.Ax, psv.Ai, psv.b, psv.c, psv.x0, psv.y0, psv.s0>>)
      h2 == IF kF.ptr # "NULL" THEN ReleaseEach(h1, <<kF.q, kF.s, kF.ptr>>) ELSE h1
  IN IF dF.ptr # "NULL" THEN ReleaseEach(h2, <<dF.A, dF.ptr>>) ELSE h2

(***************************************************************************)
(* freePyData(d, k, ps).  dF and kF are the pointer and the fields read    *)
(* through it: [ptr, A] and [ptr, q, s].                                   *)
(***************************************************************************)
freePyData(h, dF, kF, psv) ==
  LET h1 == ReleaseEach(h, <<psv.Ax, psv.Ai, psv.Ap, psv.b, psv.c,
                             psv.x0, psv.y0, psv.s0>>)
      h2 == IF kF.ptr # "NULL" THEN ReleaseEach(h1, <<kF.q, kF.s, kF.ptr>>) ELSE h1
  IN IF dF.ptr # "NULL" THEN ReleaseEach(h2, <<dF.A, dF.ptr>>) ELSE h2

(***************************************************************************)
(* scs(d, k, &sol, &info), the native solve: it writes the solution into   *)
(* the buffers of sol, allocating each one that is NULL on entry.          *)
(***************************************************************************)
ScsBlockOf == [x |-> "ox", y |-> "oy", s |-> "os"]

scsHeap(h, sl) ==
  LET new == {ScsBlockOf[f] : f \in {g \in {"x", "y", "s"} : sl[g].buf = "NULL"}}
  IN [b \in Blocks |-> IF b \in new THEN [st |-> "live", nrel |-> 0] ELSE h[b]]

scsSol(sl, m, n) ==
  [f \in {"x", "y", "s"} |->
     IF sl[f].buf = "NULL"
     THEN [buf |-> ScsBlockOf[f], len |-> IF f = "x" THEN n ELSE m, zero |-> FALSE]
     ELSE [sl[f] EXCEPT !.zero = FALSE]]

(***************************************************************************)
(* The arguments of one call.  They are drawn from four families, each     *)
(* varying one group of arguments over all its shapes while the others     *)
(* keep few: the positional arguments, the cone mapping, the options, the  *)
(* warm-start mapping.                                                     *)
(***************************************************************************)
Dims == -1..MaxDim
Lens == 0..MaxDim

\* arrays for Ax, Ai, Ap: right, wrong kind, wrong rank
FloatArrs == {NdArray("f", 1, 0), NdArray("i", 1, 0), NdArray("f", 2, 0)}
IntArrs == {NdArray("i", 1, 0), NdArray("f", 1, 0), NdArray("i", 2, 0)}
\* arrays for b and c: every length, wrong kind, wrong rank
VecArrs == {NdArray("f", 1, l) : l \in Lens} \cup {NdArray("i", 1, 0), NdArray("f", 2, 0)}

ConeKeys == {"f", "l", "q", "s", "ep", "ed"}
EmptyCone == PyDict([key \in ConeKeys |-> Absent])
\* a cone mapping none of whose fields parses
BadCone == PyDict([key \in ConeKeys |-> PyStr])
EmptyOpts == PyDict([key \in OptKeys |-> Absent])
BadOpts == PyDict([key \in OptKeys |-> IF key = "EPS" THEN PyStr ELSE Absent])

\* -1, 0, 1 and -2^32; a float
ConeScalarVals == {Absent, PyInt(0, 1), PyInt(0, -1), PyInt(-1, 0), PyFloat(1500)}
ConeElems == {PyInt(0, 1), PyInt(0, -1), PyInt(-1, 0), PyFloat(1500)}
ConeLists == UNION {[1..n -> ConeElems] : n \in 0..MaxList}
ConeArrVals == {Absent, PyInt(0, 2), PyInt(0, -1), PyStr} \cup {PyList(e) : e \in ConeLists}

OptVals == {PyInt(0, 3), PyInt(0, -1), PyFloat(500), PyFloat(-500), PyNaN, PyStr}

\* m, n and array lengths of the calls that vary the warm start: positive, so
\* that every buffer has contents, and two of them, so that lengths can differ
WarmDims == {1, 2}
\* a list, an array of rank 2, float and integer vectors of every length
WarmVals == {Absent, PyList(<<PyFloat(1000)>>), NdArray("f", 2, 1)}
              \cup {NdArray(kd, 1, l) : kd \in {"f", "i"}, l \in WarmDims}

BaseArgs ==
  [wellTyped |-> TRUE, m |-> MaxDim, n |-> MaxDim,
   Ax |-> NdArray("f", 1, 0), Ai |-> NdArray("i", 1, 0), Ap |-> NdArray("i", 1, 0),
   b |-> NdArray("f", 1, MaxDim), c |-> NdArray("f", 1, MaxDim),
   cone |-> EmptyCone, opts |-> EmptyOpts, warm |-> Omitted]

\* the positional arguments and the cone mapping vary
ShapeArgs(a) ==
  \/ \E m \in Dims, n \in Dims, ax \in FloatArrs, ai \in IntArrs, ap \in IntArrs,
        b \in VecArrs, c \in VecArrs, cn \in {EmptyCone, BadCone} :
       a = [BaseArgs EXCEPT !.m = m, !.n = n, !.Ax = ax, !.Ai = ai, !.Ap = ap, !.b = b,
                            !.c = c, !.cone = cn]
  \/ a = [BaseArgs EXCEPT !.wellTyped = FALSE]

\* the cone mapping varies: its scalar fields, or its array fields
ConeArgs(a) ==
  \/ \E f \in ConeScalarVals, l \in ConeScalarVals, ep \in ConeScalarVals,
        ed \in ConeScalarVals, o \in {EmptyOpts, BadOpts} :
       a = [BaseArgs EXCEPT !.cone = PyDict([f |-> f, l |-> l, q |-> Absent, s |-> Absent,
                                             ep |-> ep, ed |-> ed]),
                            !.opts = o]
  \/ \E q \in ConeArrVals, s \in ConeArrVals :
       a = [BaseArgs EXCEPT !.cone = PyDict([f |-> Absent, l |-> Absent, q |-> q, s |-> s,
                                             ep |-> Absent, ed |-> Absent])]

\* the options vary: omitted, or a mapping with at most MaxOptKeys keys
OptArgs(a) ==
  \/ \E S \in {T \in SUBSET OptKeys : Cardinality(T) <= MaxOptKeys} :
       \E f \in [S -> OptVals] :
         a = [BaseArgs EXCEPT !.opts =
                PyDict([key \in OptKeys |-> IF key \in S THEN f[key] ELSE Absent])]
  \/ a = [BaseArgs EXCEPT !.opts = Omitted]

\* the warm-start mapping varies, with every m and n
WarmArgs(a) ==
  \E m \in WarmDims, n \in WarmDims :
    \/ \E x \in WarmVals, y \in WarmVals, s \in WarmVals :
         a = [BaseArgs EXCEPT !.m = m, !.n = n, !.b = NdArray("f", 1, m),
                              !.c = NdArray("f", 1, n),
                              !.warm = PyDict([x |-> x, y |-> y, s |-> s])]
    \/ a = [BaseArgs EXCEPT !.m = m, !.n = n, !.b = NdArray("f", 1, m),
                            !.c = NdArray("f", 1, n)]

\* what the uninitialized local opts may hold when the argument is omitted:
\* NULL, a pointer to no object, or a stale pointer to some dictionary
UninitOptsVals ==
  {NULLP, Wild, EmptyOpts,
   PyDict([key \in OptKeys |-> IF key = "MAX_ITERS" THEN PyInt(0, 7) ELSE Absent]),
   PyDict([key \in OptKeys |-> IF key = "ALPHA" THEN PyStr ELSE Absent])}

(***************************************************************************)
(* The state of one call of csolve.                                        *)
(***************************************************************************)
VARIABLES
  args,        \* the arguments of the call
  dlong,       \* whether the module was built with DLONG
  pc,          \* the position in csolve; "returned" and "crashed" are final
  opts,        \* the local opts after argument parsing
  heap,        \* every block the call may allocate
  ps,          \* struct ScsPyData
  d,           \* the fields of Data the binding sets
  k,           \* the fields of Cone
  sol,         \* Sol: per field the buffer, its length, whether it is all zero
  present,     \* the value getWarmStart returned per field
  err,         \* the message of the error raised, or "none"
  returnDict,  \* the buffers the result dictionary's arrays wrap, or "NULL"
  ret,         \* what csolve returned: "none" yet, "NULL" or "dict"
  freeCalls,   \* number of invocations of freePyData
  scsCalls,    \* number of invocations of scs
  trace        \* the checks and coercions performed, in order

vars == <<args, dlong, pc, opts, heap, ps, d, k, sol, present, err, returnDict, ret,
          freeCalls, scsCalls, trace>>

\* Order with the checks of Ai and Ap exchanged
OrderApFirst ==
  << "m", "n", "Ax", "Ap", "Ai", "setA", "cKind", "cLen", "setC", "bKind", "bLen", "setB",
     "f", "l", "q", "s", "ep", "ed", "opts", "warm", "scs", "pack", "free" >>

\* the statements of csolve after argument parsing, in program order
Order ==
  << "m", "n", "Ax", "Ai", "Ap", "setA", "cKind", "cLen", "setC", "bKind", "bLen", "setB",
     "f", "l", "q", "s", "ep", "ed", "opts", "warm", "scs", "pack", "free" >>

After(p) == Order[(CHOOSE i \in 1..Len(Order) : Order[i] = p) + 1]

NullBuf == [buf |-> "NULL", len |-> 0, zero |-> FALSE]

Init ==
  /\ ShapeArgs(args) \/ ConeArgs(args) \/ OptArgs(args) \/ WarmArgs(args)
  /\ dlong \in BOOLEAN
  /\ pc = "start"
  /\ opts = NULLP
  /\ heap = EmptyHeap
  /\ ps = [Ax |-> "NULL", Ai |-> "NULL", Ap |-> "NULL", b |-> "NULL", c |-> "NULL",
           x0 |-> "NULL", y0 |-> "NULL", s0 |-> "NULL"]
  /\ d = [A |-> "NULL", b |-> "NULL", c |-> "NULL", WARM_START |-> 0, opt |-> ZeroOpts]
  /\ k = [f |-> Idx(0), l |-> Idx(0), q |-> "NULL", qsize |-> 0, s |-> "NULL",
          ssize |-> 0, ep |-> Idx(0), ed |-> Idx(0)]
  /\ sol = [x |-> NullBuf, y |-> NullBuf, s |-> NullBuf]
  /\ present = [x |-> 0, y |-> 0, s |-> 0]
  /\ err = "none"
  /\ returnDict = "NULL"
  /\ ret = "none"
  /\ freeCalls = 0
  /\ scsCalls = 0
  /\ trace = <<>>

(***************************************************************************)
(* finishWithErr: PyErr_SetString, freePyData, return NULL.  h is the heap *)
(* at the call.                                                            *)
(***************************************************************************)
finishWithErr(h, str) ==
  /\ err' = str
  /\ heap' = freePyData(h, [ptr |-> "d", A |-> d.A], [ptr |-> "k", q |-> k.q, s |-> k.s], ps)
  /\ freeCalls' = freeCalls + 1
  /\ ret' = "NULL"
  /\ pc' = "returned"

\* the tests csolve applies to its array arguments
NotFloatVec(a) == ~(a.kind = "f") \/ a.ndim # 1
NotIntVec(a) == ~(a.kind = "i") \/ a.ndim # 1

\* ParseFailed with the comparison turned around
ParseFailedFlipped(rc) == rc > 0

\* the test csolve applies to a parser's return code
ParseFailed(rc) == rc < 0

(***************************************************************************)
(* PyArg_ParseTupleAndKeywords, after the declarations that allocate d and *)
(* k.  opts is assigned only when the argument is given.                   *)
(***************************************************************************)
ParseArgs ==
  /\ pc = "start"
  /\ heap' = Alloc(Alloc(heap, "d"), "k")
  /\ IF ~args.wellTyped
     THEN /\ err' = "argument parsing failed"
          /\ ret' = "NULL"
          /\ pc' = "returned"
          /\ opts' = opts
     ELSE /\ opts' \in (IF args.opts = Omitted THEN UninitOptsVals ELSE {args.opts})
          /\ pc' = Order[1]
          /\ UNCHANGED <<err, ret>>
  /\ UNCHANGED <<args, dlong, ps, d, k, sol, present, returnDict, freeCalls, scsCalls, trace>>

\* a check of m or n: on failure the error is set and NULL returned at once
DimCheck(p, bad, str) ==
  /\ pc = p
  /\ trace' = Append(trace, p)
  /\ IF bad
     THEN err' = str /\ ret' = "NULL" /\ pc' = "returned"
     ELSE pc' = After(p) /\ UNCHANGED <<err, ret>>
  /\ UNCHANGED <<args, dlong, opts, heap, ps, d, k, sol, present, returnDict, freeCalls,
                 scsCalls>>

\* a check that ends the call through finishWithErr
Check(p, bad, str) ==
  /\ pc = p
  /\ trace' = Append(trace, p)
  /\ IF bad
     THEN finishWithErr(heap, str)
     ELSE pc' = After(p) /\ UNCHANGED <<err, heap, freeCalls, ret>>
  /\ UNCHANGED <<args, dlong, opts, ps, d, k, sol, present, returnDict, scsCalls>>

CheckM == DimCheck("m", args.m < 0, "m must be a positive integer")
CheckN == DimCheck("n", args.n < 0, "n must be a positive integer")
CheckAx == Check("Ax", NotFloatVec(args.Ax), "Ax must be a numpy array of floats")
CheckAi == Check("Ai", NotIntVec(args.Ai), "Ai must be a numpy array of ints")
CheckAp == Check("Ap", NotIntVec(args.Ap), "Ap must be a numpy array of ints")

\* coerce Ax, Ai, Ap and build the AMatrix wrapper
SetA ==
  /\ pc = "setA"
  /\ trace' = Append(trace, "setA")
  /\ heap' = Alloc(getContiguous(getContiguous(getContiguous(heap, "ownAx"), "ownAi"), "ownAp"), "A")
  /\ ps' = [ps EXCEPT !.Ax = "ownAx", !.Ai = "ownAi", !.Ap = "ownAp"]
  /\ d' = [d EXCEPT !.A = "A"]
  /\ pc' = After("setA")
  /\ UNCHANGED <<args, dlong, opts, k, sol, present, err, returnDict, ret, freeCalls,
                 scsCalls>>

CheckCKind ==
  Check("cKind", NotFloatVec(args.c), "c must be a dense numpy array with one dimension")
CheckCLen == Check("cLen", args.c.len # args.n, "c has incompatible dimension with A")

SetC ==
  /\ pc = "setC"
  /\ trace' = Append(trace, "setC")
  /\ heap' = getContiguous(heap, "ownC")
  /\ ps' = [ps EXCEPT !.c = "ownC"]
  /\ d' = [d EXCEPT !.c = "ownC"]
  /\ pc' = After("setC")
  /\ UNCHANGED <<args, dlong, opts, k, sol, present, err, returnDict, ret, freeCalls,
                 scsCalls>>

CheckBKind ==
  Check("bKind", NotFloatVec(args.b), "b must be a dense numpy array with one dimension")
CheckBLen == Check("bLen", args.b.len # args.m, "b has incompatible dimension with A")

SetB ==
  /\ pc = "setB"
  /\ trace' = Append(trace, "setB")
  /\ heap' = getContiguous(heap, "ownB")
  /\ ps' = [ps EXCEPT !.b = "ownB"]
  /\ d' = [d EXCEPT !.b = "ownB"]
  /\ pc' = After("setB")
  /\ UNCHANGED <<args, dlong, opts, k, sol, present, err, returnDict, ret, freeCalls,
                 scsCalls>>

\* a scalar cone field: getPosIntParam with default 0 into k
ConeScalar(p, str) ==
  LET r == getPosIntParam(p, Idx(0), args.cone, dlong) IN
  /\ pc = p
  /\ trace' = Append(trace, p)
  /\ k' = [k EXCEPT ![p] = r.v]
  /\ IF ParseFailed(r.rc)
     THEN finishWithErr(heap, str)
     ELSE pc' = After(p) /\ UNCHANGED <<err, heap, freeCalls, ret>>
  /\ UNCHANGED <<args, dlong, opts, ps, d, sol, present, returnDict, scsCalls>>

\* an array cone field: getConeArrDim into k; blk is the array it allocates
ConeArray(p, blk, str) ==
  LET r == getConeArrDim(p, args.cone, dlong)
      h == IF r.alloc THEN Alloc(heap, blk) ELSE heap
  IN
  /\ pc = p
  /\ trace' = Append(trace, p)
  /\ k' = IF ~r.assigned THEN k
          ELSE IF p = "q"
          THEN [k EXCEPT !.q = IF r.alloc THEN blk ELSE "NULL", !.qsize = r.vsize]
          ELSE [k EXCEPT !.s = IF r.alloc THEN blk ELSE "NULL", !.ssize = r.vsize]
  /\ IF ParseFailed(r.rc)
     THEN finishWithErr(h, str)
     ELSE pc' = After(p) /\ heap' = h /\ UNCHANGED <<err, freeCalls, ret>>
  /\ UNCHANGED <<args, dlong, opts, ps, d, sol, present, returnDict, scsCalls>>

ConeF == ConeScalar("f", "failed to parse cone field f")
ConeL == ConeScalar("l", "failed to parse cone field l")
ConeQ == ConeArray("q", "kq", "failed to parse cone field q")
ConeS == ConeArray("s", "ks", "failed to parse cone field s")
ConeEp == ConeScalar("ep", "failed to parse cone field ep")
ConeEd == ConeScalar("ed", "failed to parse cone field ed")

\* parseOpts(d, opts); reading through a pointer to no object crashes
ParseOptsStep ==
  /\ pc = "opts"
  /\ trace' = Append(trace, "opts")
  /\ IF opts = Wild
     THEN pc' = "crashed" /\ UNCHANGED <<d, err, heap, freeCalls, ret>>
     ELSE LET r == parseOpts(d.opt, opts, dlong) IN
          /\ d' = [d EXCEPT !.opt = r.opt]
          /\ IF ParseFailed(r.rc)
             THEN finishWithErr(heap, "failed to parse opts")
             ELSE pc' = After("opts") /\ UNCHANGED <<err, heap, freeCalls, ret>>
  /\ UNCHANGED <<args, dlong, opts, ps, k, sol, present, returnDict, scsCalls>>

(***************************************************************************)
(* The warm start: the three getWarmStart calls in order x, y, s.  Each    *)
(* call first points the sol field at a fresh zero-filled buffer, then, if *)
(* the item passes the tests, at the data of the coerced array.            *)
(***************************************************************************)
WarmBlockOf == [x |-> "wx", y |-> "wy", s |-> "ws"]
WarmTokenOf == [x |-> "ownX0", y |-> "ownY0", s |-> "ownS0"]
WarmPsField == [x |-> "x0", y |-> "y0", s |-> "s0"]

\* the effect of one getWarmStart call with result r on st = [heap, ps, sol, present, crashed]
WarmField(st, f, r) ==
  IF st.crashed THEN st
  ELSE LET h1 == Alloc(st.heap, WarmBlockOf[f]) IN
       IF r.coerced
       THEN [heap |-> getContiguous(h1, WarmTokenOf[f]),
             ps |-> [st.ps EXCEPT ![WarmPsField[f]] = WarmTokenOf[f]],
             sol |-> [st.sol EXCEPT ![f] = [buf |-> WarmTokenOf[f], len |-> r.len,
                                            zero |-> FALSE]],
             present |-> [st.present EXCEPT ![f] = r.ret],
             crashed |-> FALSE]
       ELSE [heap |-> h1,
             ps |-> st.ps,
             sol |-> [st.sol EXCEPT ![f] = [buf |-> WarmBlockOf[f], len |-> r.len,
                                            zero |-> TRUE]],
             present |-> [st.present EXCEPT ![f] = r.ret],
             crashed |-> r.crash]

LoadWarm ==
  /\ pc = "warm"
  /\ trace' = Append(trace, "warm")
  /\ IF args.warm = Omitted
     THEN /\ d' = [d EXCEPT !.WARM_START = 0]
          /\ pc' = After("warm")
          /\ UNCHANGED <<heap, ps, sol, present>>
     ELSE \E ux \in UBFor(args.warm, "x"), uy \in UBFor(args.warm, "y"),
             us \in UBFor(args.warm, "s") :
            LET s0 == [heap |-> heap, ps |-> ps, sol |-> sol, present |-> present,
                       crashed |-> FALSE]
                s1 == WarmField(s0, "x", getWarmStart("x", args.n, args.warm, ux))
                s2 == WarmField(s1, "y", getWarmStart("y", args.m, args.warm, uy))
                s3 == WarmField(s2, "s", getWarmStart("s", args.m, args.warm, us))
            IN /\ heap' = s3.heap
               /\ ps' = s3.ps
               /\ sol' = s3.sol
               /\ present' = s3.present
               /\ d' = [d EXCEPT !.WARM_START =
                          BitOr(BitOr(s3.present.x, s3.present.y), s3.present.s)]
               /\ pc' = IF s3.crashed THEN "crashed" ELSE After("warm")
  /\ UNCHANGED <<args, dlong, opts, k, err, returnDict, ret, freeCalls, scsCalls>>

\* scs(d, k, &sol, &info)
Solve ==
  /\ pc = "scs"
  /\ trace' = Append(trace, "scs")
  /\ scsCalls' = scsCalls + 1
  /\ heap' = scsHeap(heap, sol)
  /\ sol' = scsSol(sol, args.m, args.n)
  /\ pc' = After("scs")
  /\ UNCHANGED <<args, dlong, opts, ps, d, k, present, err, returnDict, ret, freeCalls>>

\* the result dictionary: PyArray_SimpleNewFromData wraps sol.x, sol.y, sol.s
Package ==
  /\ pc = "pack"
  /\ trace' = Append(trace, "pack")
  /\ returnDict' = [x |-> sol.x.buf, y |-> sol.y.buf, s |-> sol.s.buf]
  /\ pc' = After("pack")
  /\ UNCHANGED <<args, dlong, opts, heap, ps, d, k, sol, present, err, ret, freeCalls,
                 scsCalls>>

\* freePyData(d, k, &ps); return returnDict
FreeAndReturn ==
  /\ pc = "free"
  /\ trace' = Append(trace, "free")
  /\ heap' = freePyData(heap, [ptr |-> "d", A |-> d.A], [ptr |-> "k", q |-> k.q, s |-> k.s],
                        ps)
  /\ freeCalls' = freeCalls + 1
  /\ ret' = "dict"
  /\ pc' = "returned"
  /\ UNCHANGED <<args, dlong, opts, ps, d, k, sol, present, err, returnDict, scsCalls>>

Next ==
  \/ ParseArgs
  \/ CheckM
  \/ CheckN
  \/ CheckAx
  \/ CheckAi
  \/ CheckAp
  \/ SetA
  \/ CheckCKind
  \/ CheckCLen
  \/ SetC
  \/ CheckBKind
  \/ CheckBLen
  \/ SetB
  \/ ConeF
  \/ ConeL
  \/ ConeQ
  \/ ConeS
  \/ ConeEp
  \/ ConeEd
  \/ ParseOptsStep
  \/ LoadWarm
  \/ Solve
  \/ Package
  \/ FreeAndReturn

Spec == Init /\ [][Next]_vars

(***************************************************************************)
(* The teardown harness: freePyData invoked again on the same d, k and ps  *)
(* after its first invocation.  d and k then point to freed blocks, so the *)
(* fields read through them hold either their old value or NULL.           *)
(***************************************************************************)
ReapAgain ==
  /\ pc = "returned"
  /\ freeCalls >= 1
  /\ freeCalls < MaxReap
  /\ \E dA \in {d.A, "NULL"}, kq \in {k.q, "NULL"}, ks \in {k.s, "NULL"} :
       heap' = freePyData(heap, [ptr |-> "d", A |-> dA], [ptr |-> "k", q |-> kq, s |-> ks],
                          ps)
  /\ freeCalls' = freeCalls + 1
  /\ UNCHANGED <<args, dlong, pc, opts, ps, d, k, sol, present, err, returnDict, ret,
                 scsCalls, trace>>

NextReaper == Next \/ ReapAgain

SpecReaper == Init /\ [][NextReaper]_vars

(***************************************************************************)
(* Properties.                                                             *)
(***************************************************************************)
Range(sq) == {sq[i] : i \in 1..Len(sq)}

\* the call has executed statement p
Performed(p) == p \in Range(trace)

\* the value of a nonnegative integer object, as Python sees it
IsNonNegInt(obj) == obj.tag = "int" /\ (obj.w > 0 \/ (obj.w = 0 /\ obj.v >= 0))

ConeItem(key) == args.cone.map[key]

\* whether a validation or parse step fails on the arguments of the call
StepFails(chk) ==
  CASE chk = "m" -> args.m < 0
    [] chk = "n" -> args.n < 0
    [] chk = "Ax" -> ~(args.Ax.kind = "f" /\ args.Ax.ndim = 1)
    [] chk = "Ai" -> ~(args.Ai.kind = "i" /\ args.Ai.ndim = 1)
    [] chk = "Ap" -> ~(args.Ap.kind = "i" /\ args.Ap.ndim = 1)
    [] chk = "cKind" -> ~(args.c.kind = "f" /\ args.c.ndim = 1)
    [] chk = "cLen" -> args.c.len # args.n
    [] chk = "bKind" -> ~(args.b.kind = "f" /\ args.b.ndim = 1)
    [] chk = "bLen" -> args.b.len # args.m
    [] chk \in {"f", "l", "ep", "ed"} -> getPosIntParam(chk, Idx(0), args.cone, dlong).rc # 0
    [] chk \in {"q", "s"} -> getConeArrDim(chk, args.cone, dlong).rc # 0
    [] chk = "opts" -> opts.tag = "dict" /\ parseOpts(ZeroOpts, opts, dlong).rc # 0

\* the order of the checks as the specification states it
ClaimedChecks ==
  << "m", "n", "Ax", "Ai", "Ap", "cKind", "cLen", "bKind", "bLen",
     "f", "l", "q", "s", "ep", "ed", "opts" >>

\* the argument each check is about, and the argument each message names
ArgOfCheck(chk) ==
  CASE chk \in {"cKind", "cLen"} -> "c"
    [] chk \in {"bKind", "bLen"} -> "b"
    [] OTHER -> chk

ArgNamedBy(msg) ==
  CASE msg = "m must be a positive integer" -> "m"
    [] msg = "n must be a positive integer" -> "n"
    [] msg = "Ax must be a numpy array of floats" -> "Ax"
    [] msg = "Ai must be a numpy array of ints" -> "Ai"
    [] msg = "Ap must be a numpy array of ints" -> "Ap"
    [] msg = "c must be a dense numpy array with one dimension" -> "c"
    [] msg = "c has incompatible dimension with A" -> "c"
    [] msg = "b must be a dense numpy array with one dimension" -> "b"
    [] msg = "b has incompatible dimension with A" -> "b"
    [] msg = "failed to parse cone field f" -> "f"
    [] msg = "failed to parse cone field l" -> "l"
    [] msg = "failed to parse cone field q" -> "q"
    [] msg = "failed to parse cone field s" -> "s"
    [] msg = "failed to parse cone field ep" -> "ep"
    [] msg = "failed to parse cone field ed" -> "ed"
    [] msg = "failed to parse opts" -> "opts"
    [] OTHER -> "nothing"

\* the index in ClaimedChecks of the first failing check, 0 when none fails
RECURSIVE FirstFailingFrom(_)
FirstFailingFrom(i) ==
  IF i > Len(ClaimedChecks) THEN 0
  ELSE IF StepFails(ClaimedChecks[i]) THEN i
  ELSE FirstFailingFrom(i + 1)

FirstFailing == FirstFailingFrom(1)

\* C1: every call that returns, whatever its outcome, has invoked freePyData
\* exactly once before returning.
C1_ReaperOncePerCall ==
  (pc = "returned" /\ args.wellTyped) => freeCalls = 1

\* C2: when csolve returns, every block allocated during the call that is not
\* a buffer of the returned result has been released.
C2_NoLeakAtReturn ==
  (pc = "returned" /\ args.wellTyped) =>
     \A b \in Blocks :
        heap[b].st = "live" =>
           ret = "dict" /\ b \in {returnDict.x, returnDict.y, returnDict.s}

\* the warm-start items are absent or arrays (valid or malformed)
WarmItemsAreArrays ==
  args.warm # Omitted =>
     \A f \in {"x", "y", "s"} : args.warm.map[f] = Absent \/ args.warm.map[f].tag = "ndarray"

\* C3: on a successful call, no buffer wrapped as result x, y or s is a buffer
\* freePyData released during the call.
C3_ResultBuffersNotReleased ==
  (ret = "dict" /\ WarmItemsAreArrays) =>
     \A f \in {"x", "y", "s"} : heap[returnDict[f]].nrel = 0

\* C4: if any validation or parse step other than the warm start fails, scs
\* is never invoked, no result dictionary is built, and the call returns NULL
\* with an error raised.
C4_FailureAbortsCall ==
  (args.wellTyped /\ pc # "start" /\ FirstFailing # 0) =>
     /\ scsCalls = 0
     /\ returnDict = "NULL"
     /\ pc # "crashed"
     /\ ~Performed("warm")
     /\ pc = "returned" => (err # "none" /\ ret = "NULL")

C4_Witness ==
  /\ pc = "returned"
  /\ args.wellTyped
  /\ FirstFailing # 0
  /\ ClaimedChecks[FirstFailing] = "opts"
  /\ err = "failed to parse opts"
  /\ scsCalls = 0

\* the default the specification documents for each option
DocumentedDefault ==
  [MAX_ITERS |-> Idx(2500), VERBOSE |-> Idx(1), NORMALIZE |-> Idx(1), SCALE |-> Flt(5000),
   EPS |-> Flt(1), CG_RATE |-> Flt(2000), ALPHA |-> Flt(1800), RHO_X |-> Flt(1)]

\* option key is not supplied: opts omitted, or a mapping without the key
NotSupplied(key) == args.opts = Omitted \/ args.opts.map[key] = Absent

\* C5: an option whose key is not supplied takes its documented default, and
\* the call does not fail (nor crash) on account of it.
C5_MissingOptionDefault ==
  \A key \in OptKeys :
     (args.wellTyped /\ NotSupplied(key) /\ Performed("opts")) =>
        /\ ~(pc = "crashed" /\ ~Performed("warm"))
        /\ err = "failed to parse opts" => parseOpts(ZeroOpts, opts, dlong).failed # key
        /\ err = "none" /\ pc # "crashed" => d.opt[key] = DocumentedDefault[key]

ExpectedLen(f) == IF f = "x" THEN args.n ELSE args.m

\* warm-start item f is present but is not a one-dimensional float array of
\* the expected length
WarmMalformed(f) ==
  /\ args.warm # Omitted
  /\ args.warm.map[f] # Absent
  /\ ~(/\ args.warm.map[f].tag = "ndarray"
       /\ args.warm.map[f].kind = "f"
       /\ args.warm.map[f].ndim = 1
       /\ args.warm.map[f].len = ExpectedLen(f))

\* C6: a malformed warm-start item never aborts the call: it is reported not
\* present, the solver is handed a zero-filled buffer of the expected length
\* for it, the solver is invoked, and WARM_START is the OR of the three flags.
C6_MalformedWarmIsAbsent ==
  \A f \in {"x", "y", "s"} :
     (WarmMalformed(f) /\ Performed("warm")) =>
        /\ pc # "crashed"
        /\ present[f] = 0
        /\ pc = "scs" => (sol[f].buf = WarmBlockOf[f] /\ sol[f].zero
                           /\ sol[f].len = ExpectedLen(f))
        /\ d.WARM_START = (IF \E g \in {"x", "y", "s"} : present[g] = 1 THEN 1 ELSE 0)
        /\ pc = "returned" => (scsCalls = 1 /\ ret = "dict")

\* the case of C7: everything before c is right, c is a float vector of a
\* length other than n
CLengthMismatch ==
  /\ args.wellTyped
  /\ args.m >= 0
  /\ args.n >= 0
  /\ args.Ax.kind = "f" /\ args.Ax.ndim = 1
  /\ args.Ai.kind = "i" /\ args.Ai.ndim = 1
  /\ args.Ap.kind = "i" /\ args.Ap.ndim = 1
  /\ args.c.kind = "f" /\ args.c.ndim = 1
  /\ args.c.len # args.n

\* C7: when the length of c differs from n the call fails with the error
\* naming c, having released Ax, Ai, Ap, Data, Cone and the AMatrix wrapper
\* exactly once each and nothing else.
C7_CLengthMismatchReleasesAll ==
  (CLengthMismatch /\ pc = "returned") =>
     /\ ret = "NULL"
     /\ err = "c has incompatible dimension with A"
     /\ ArgNamedBy(err) = "c"
     /\ freeCalls = 1
     /\ \A b \in {"ownAx", "ownAi", "ownAp", "d", "k", "A"} :
           heap[b] = [st |-> "freed", nrel |-> 1]
     /\ \A b \in Blocks \ {"ownAx", "ownAi", "ownAp", "d", "k", "A"} :
           heap[b] = [st |-> "none", nrel |-> 0]

C7_Witness ==
  /\ CLengthMismatch
  /\ pc = "returned"
  /\ heap["ownAp"].nrel = 1
  /\ ps.c = "NULL"

\* C8: the checks run in the stated order; a failing call raises the error of
\* the first failing check, the message names its argument, and nothing is
\* checked or coerced after it.
C8_FirstFailingCheckWins ==
  (args.wellTyped /\ pc = "returned" /\ FirstFailing # 0) =>
     /\ err # "none"
     /\ ArgNamedBy(err) = ArgOfCheck(ClaimedChecks[FirstFailing])
     /\ trace[Len(trace)] = ClaimedChecks[FirstFailing]
     /\ SelectSeq(trace, LAMBDA p : p \in Range(ClaimedChecks))
          = SubSeq(ClaimedChecks, 1, FirstFailing)

\* two positional arguments and the cone mapping are invalid at once
C8_Witness ==
  /\ args.wellTyped
  /\ pc = "returned"
  /\ FirstFailing # 0
  /\ ClaimedChecks[FirstFailing] = "Ai"
  /\ StepFails("Ap")
  /\ StepFails("bLen")
  /\ StepFails("q")
  /\ err = "Ai must be a numpy array of ints"

\* cone item key is a list with an element that is not a nonnegative integer
ListWithBadElement(key) ==
  /\ ConeItem(key).tag = "list"
  /\ \E i \in 1..Len(ConeItem(key).elems) : ~IsNonNegInt(ConeItem(key).elems[i])

\* C9: a list for q or s holding an element that is not a nonnegative integer
\* makes getConeArrDim fail for that key and leaves the caller's array NULL
\* with size 0.
C9_BadListElementFails ==
  /\ (args.wellTyped /\ ListWithBadElement("q") /\ Performed("q")) =>
        (pc = "returned" /\ err = "failed to parse cone field q"
           /\ k.q = "NULL" /\ k.qsize = 0)
  /\ (args.wellTyped /\ ListWithBadElement("s") /\ Performed("s")) =>
        (pc = "returned" /\ err = "failed to parse cone field s"
           /\ k.s = "NULL" /\ k.ssize = 0)

\* C10: however often freePyData is invoked on the same structures, no
\* reference is decremented twice and no block is freed twice.
C10_ReaperIdempotent ==
  \A b \in Blocks : heap[b].nrel <= 1

====
